---- MODULE Spec2Model ----
(***************************************************************************)
(* The loss layer of squeezeDetMX (src/squeezeDetMX/model.py): the custom  *)
(* operator BigRegressionOutput (forward, backward, split_block,           *)
(* merge_block and the three gradient rules) and the shape inference of    *)
(* BigRegressionOutputProp.                                                *)
(*                                                                         *)
(* A tensor is a record [ok, shape, data]: shape is the sequence of its    *)
(* extents and data its elements in row-major order, data[i + 1] holding   *)
(* the element of linear index i.  A failed library call yields Err.       *)
(* An element is a float, modelled as a fixed-point number (v / Scale) or  *)
(* one of nan, +inf, -inf.                                                 *)
(***************************************************************************)
EXTENDS Integers, Sequences, FiniteSets, TLC

VARIABLES
    ANCHORS_PER_GRID,   \* constants.ANCHORS_PER_GRID of this configuration
    NUM_BBOX_ATTRS,     \* constants.NUM_BBOX_ATTRS
    NUM_CLASSES,        \* constants.NUM_CLASSES
    in_data,            \* <<prediction, label>>: the operator's input buffers
    out_data,           \* <<output>>: the operator's output buffer
    in_grad,            \* <<gradient of the prediction>>: the gradient buffer
    last,               \* the last call: what it was given and how it ended
    first,              \* the first backward call that computed a gradient
    calls,              \* number of forward and backward calls so far
    block,              \* codec: the packed tensor handed to split_block
    parts,              \* codec: what split_block returned for block
    merged,             \* codec: what merge_block returned for parts
    in_shape,           \* shape inference: the shapes handed to infer_shape
    inferred            \* shape inference: what infer_shape returned

vars == <<ANCHORS_PER_GRID, NUM_BBOX_ATTRS, NUM_CLASSES, in_data, out_data,
          in_grad, last, first, calls, block, parts, merged, in_shape, inferred>>

----------------------------------------------------------------------------
(* Bounds of the model. *)

MaxBatch == 2
MaxHeight == 2
MaxWidth == 2
MaxCalls == 3

\* The configurations the layer is specified for.
AnchorChoices == {1, 3, 9}
BboxChoices == {1, 4}
ClassChoices == {1, 5}

----------------------------------------------------------------------------
(* Floats. *)

Scale == 10 * 1000

Fin(x) == [k |-> "fin", v |-> x]
NaN == [k |-> "nan", v |-> 0]
PInf == [k |-> "pinf", v |-> 0]
NInf == [k |-> "ninf", v |-> 0]

Sign(a) ==
    CASE a.k = "pinf" -> 1
      [] a.k = "ninf" -> -1
      [] a.k = "fin" -> (IF a.v > 0 THEN 1 ELSE IF a.v < 0 THEN -1 ELSE 0)
      [] OTHER -> 0

fneg(a) ==
    CASE a.k = "fin" -> Fin(0 - a.v)
      [] a.k = "pinf" -> NInf
      [] a.k = "ninf" -> PInf
      [] OTHER -> NaN

fadd(a, b) ==
    CASE a.k = "nan" \/ b.k = "nan" -> NaN
      [] a.k = "fin" /\ b.k = "fin" -> Fin(a.v + b.v)
      [] a.k = "fin" -> b
      [] b.k = "fin" -> a
      [] a.k = b.k -> a
      [] OTHER -> NaN

fsub(a, b) == fadd(a, fneg(b))

fmul(a, b) ==
    CASE a.k = "nan" \/ b.k = "nan" -> NaN
      [] a.k = "fin" /\ b.k = "fin" -> Fin((a.v * b.v) \div Scale)
      [] Sign(a) * Sign(b) > 0 -> PInf
      [] Sign(a) * Sign(b) < 0 -> NInf
      [] OTHER -> NaN

\* 2 * x and 1 - x: the scalar forms of * and -
mul_scalar(c, a) == IF a.k = "fin" THEN Fin(c * a.v) ELSE a
rminus_scalar(c, a) == fsub(Fin(c * Scale), a)

\* natural logarithm at the tenths 0.1 .. 2.0, in units of 1 / Scale
LnTable ==
    << -23026, -16094, -12040, -9163, -6931, -5108, -3567, -2231, -1054, 0,
       953, 1823, 2624, 3365, 4055, 4700, 5306, 5878, 6419, 6931 >>

flog(a) ==
    CASE a.k = "nan" \/ a.k = "ninf" -> NaN
      [] a.k = "pinf" -> PInf
      [] a.v < 0 -> NaN
      [] a.v = 0 -> NInf
      [] OTHER ->
           LET t == (a.v * 10) \div Scale
               i == IF t < 1 THEN 1 ELSE IF t > Len(LnTable) THEN Len(LnTable) ELSE t
           IN Fin(LnTable[i])

----------------------------------------------------------------------------
(* Tensors and the mxnet.ndarray calls the layer makes. *)

\* F applied to the value of v, which is computed once
Let(v, F(_)) == CHOOSE r \in {F(x) : x \in {v}} : TRUE

\* the sequence f(1), ..., f(n), computed once
Listed(n, f(_)) == SubSeq([i \in 1..n |-> f(i)], 1, n)

Err == [ok |-> FALSE, shape |-> <<>>, data |-> <<>>]

RECURSIVE Prod(_)
Prod(s) == IF s = <<>> THEN 1 ELSE Head(s) * Prod(Tail(s))

\* the tensor of the given shape whose element of linear index i is f(i)
Tensor(shape, f(_)) ==
    [ok |-> TRUE, shape |-> shape, data |-> Listed(Prod(shape), LAMBDA i : f(i - 1))]

At(t, i) == t.data[i + 1]

\* product of the extents after position p (1-based) of a shape
Inner(s, p) == Prod(SubSeq(s, p + 1, Len(s)))

\* the multi-index (0-based, as a sequence) of linear index i, and back
Unravel(i, s) == [d \in 1..Len(s) |-> (i \div Inner(s, d)) % s[d]]
RECURSIVE Ravel(_, _)
Ravel(idx, s) ==
    IF s = <<>> THEN 0
    ELSE Head(idx) * Prod(Tail(s)) + Ravel(Tail(idx), Tail(s))

\* shape with position p replaced / removed / a new extent inserted before p
SetDim(s, p, n) == [s EXCEPT ![p] = n]
DropDim(s, p) == SubSeq(s, 1, p - 1) \o SubSeq(s, p + 1, Len(s))
AddDim(s, p, n) == SubSeq(s, 1, p - 1) \o <<n>> \o SubSeq(s, p, Len(s))

\* nd.expand_dims(t, axis): a new axis of extent 1 at position axis (0-based)
expand_dims(t, axis) ==
    IF ~t.ok \/ axis > Len(t.shape) THEN Err
    ELSE [t EXCEPT !.shape = AddDim(t.shape, axis + 1, 1)]

\* a split that deals the positions of the axis out in turn: output j takes
\* positions j, j + num_outputs, ... instead of a contiguous run
SplitPartStrided(t, num_outputs, axis, squeeze_axis, j) ==
    Let([sz |-> t.shape[axis + 1] \div num_outputs,
         inner |-> Inner(t.shape, axis + 1),
         whole |-> t.shape[axis + 1]],
        LAMBDA c :
            Tensor(IF squeeze_axis THEN DropDim(t.shape, axis + 1)
                   ELSE SetDim(t.shape, axis + 1, c.sz),
                   LAMBDA i : At(t, (i \div (c.sz * c.inner)) * (c.whole * c.inner)
                                      + (((i % (c.sz * c.inner)) \div c.inner) * num_outputs + j)
                                          * c.inner
                                      + (i % c.inner))))

\* output j (0-based) of nd.split(t, num_outputs, axis, squeeze_axis); t is a value
SplitPart(t, num_outputs, axis, squeeze_axis, j) ==
    Let([sz |-> t.shape[axis + 1] \div num_outputs,
         inner |-> Inner(t.shape, axis + 1),
         whole |-> t.shape[axis + 1]],
        LAMBDA c :
            Tensor(IF squeeze_axis THEN DropDim(t.shape, axis + 1)
                   ELSE SetDim(t.shape, axis + 1, c.sz),
                   LAMBDA i : At(t, (i \div (c.sz * c.inner)) * (c.whole * c.inner)
                                      + j * c.sz * c.inner + (i % (c.sz * c.inner)))))

\* nd.split: num_outputs equal parts along axis.  The call fails unless the
\* extent divides evenly (and, to squeeze, each part has extent 1).  With
\* num_outputs = 1 the library returns the one array itself, not a list:
\* list = FALSE.
nd_split(array, num_outputs, axis, squeeze_axis) ==
    Let(array, LAMBDA t :
        IF \/ ~t.ok
           \/ axis + 1 > Len(t.shape)
           \/ num_outputs < 1
        THEN [ok |-> FALSE, list |-> TRUE, outs |-> <<>>]
        ELSE IF \/ t.shape[axis + 1] % num_outputs # 0
                \/ (squeeze_axis /\ t.shape[axis + 1] # num_outputs)
        THEN [ok |-> FALSE, list |-> TRUE, outs |-> <<>>]
        ELSE [ok |-> TRUE, list |-> num_outputs > 1,
              outs |-> Listed(num_outputs, LAMBDA j :
                          SplitPart(t, num_outputs, axis, squeeze_axis, j - 1))])

\* nd.concat of two arrays along dim (0-based); a and b are values
Concat2(a, b, dim) ==
    IF \/ ~a.ok \/ ~b.ok
       \/ Len(a.shape) # Len(b.shape)
       \/ dim + 1 > Len(a.shape)
    THEN Err
    ELSE IF \E d \in 1..Len(a.shape) : d # dim + 1 /\ a.shape[d] # b.shape[d]
    THEN Err
    ELSE Let([inner |-> Inner(a.shape, dim + 1),
              na |-> a.shape[dim + 1] * Inner(a.shape, dim + 1),
              nb |-> b.shape[dim + 1] * Inner(a.shape, dim + 1)],
             LAMBDA c :
                 Tensor(SetDim(a.shape, dim + 1, a.shape[dim + 1] + b.shape[dim + 1]),
                        LAMBDA i :
                            IF (i % (c.na + c.nb)) < c.na
                            THEN At(a, (i \div (c.na + c.nb)) * c.na + (i % (c.na + c.nb)))
                            ELSE At(b, (i \div (c.na + c.nb)) * c.nb
                                         + (i % (c.na + c.nb)) - c.na)))

\* nd.concat(*arrays, dim): fails on an empty argument list
RECURSIVE ConcatFrom(_, _, _, _)
ConcatFrom(acc, arrays, k, dim) ==
    IF k > Len(arrays) THEN acc
    ELSE Let(Concat2(acc, arrays[k], dim), LAMBDA t : ConcatFrom(t, arrays, k + 1, dim))

nd_concat(list, dim) ==
    Let(list, LAMBDA arrays :
        IF Len(arrays) = 0 THEN Err ELSE ConcatFrom(arrays[1], arrays, 2, dim))

\* for x in t: the slices of an array along its first axis; t is a value
Slices0(t) ==
    Listed(t.shape[1], LAMBDA j :
        Tensor(Tail(t.shape), LAMBDA i : At(t, (j - 1) * Prod(Tail(t.shape)) + i)))

\* elementwise unary map
Map(Op(_), array) ==
    Let(array, LAMBDA a :
        IF ~a.ok THEN Err ELSE Tensor(a.shape, LAMBDA i : Op(At(a, i))))

\* shapes padded on the left with 1s to rank n
Pad(s, n) == [d \in 1..n |-> IF d <= n - Len(s) THEN 1 ELSE s[d - (n - Len(s))]]
Max(a, b) == IF a > b THEN a ELSE b
Min(a, b) == IF a < b THEN a ELSE b

\* the operand's linear index that output index i reads under broadcasting
Pick(i, out_shape, s) ==
    Let(Unravel(i, out_shape), LAMBDA idx :
        Ravel([d \in 1..Len(s) |-> IF s[d] = 1 THEN 0 ELSE idx[d]], s))

\* elementwise binary operation (a - b, a * b, a + b on arrays).  Equal shapes
\* are combined element by element.  On unequal shapes the outcome depends on
\* the library build: the strict one fails, the broadcasting one stretches
\* extents of 1 and fails on any other disagreement.
Zip(Op(_, _), lhs, rhs, broadcast) ==
    Let(<<lhs, rhs>>, LAMBDA x :
        IF ~x[1].ok \/ ~x[2].ok THEN Err
        ELSE IF x[1].shape = x[2].shape
        THEN Tensor(x[1].shape, LAMBDA i : Op(At(x[1], i), At(x[2], i)))
        ELSE IF ~broadcast THEN Err
        ELSE Let([sa |-> Pad(x[1].shape, Max(Len(x[1].shape), Len(x[2].shape))),
                  sb |-> Pad(x[2].shape, Max(Len(x[1].shape), Len(x[2].shape)))],
                 LAMBDA s :
                     IF \E d \in 1..Len(s.sa) :
                            s.sa[d] # s.sb[d] /\ s.sa[d] # 1 /\ s.sb[d] # 1
                     THEN Err
                     ELSE Let([d \in 1..Len(s.sa) |-> Max(s.sa[d], s.sb[d])],
                              LAMBDA so :
                                  Tensor(so, LAMBDA i :
                                      Op(At(x[1], Pick(i, so, s.sa)),
                                         At(x[2], Pick(i, so, s.sb)))))))

----------------------------------------------------------------------------
(* BigRegressionOutput: the codec. *)

NoParts == [ok |-> FALSE, bbox |-> Err, class |-> Err, score |-> Err]

\* the arrays the list comprehension of split_block runs over: the list
\* nd.split returned, or the slices of the one array it returned; s is a value
Each(s) == IF s.list THEN s.outs ELSE Slices0(s.outs[1])

\* split_block(block).  iterable: whether the build lets a for loop run over
\* one array (the value nd.split returns for num_outputs = 1).
split_block(blk, iterable) ==
    Let(nd_split(blk, blk.shape[2] \div ANCHORS_PER_GRID, 1, FALSE), LAMBDA splits :
        IF ~splits.ok \/ (~splits.list /\ ~iterable) THEN NoParts
        ELSE Let(Let(Each(splits), LAMBDA each :
                     Listed(Len(each), LAMBDA i : expand_dims(each[i], 2))),
                 LAMBDA expanded_splits :
            Let([pred_bbox |->
                    nd_concat(SubSeq(expanded_splits, 1,
                                     Min(NUM_BBOX_ATTRS, Len(expanded_splits))), 2),
                 pred_class |->
                    nd_concat(SubSeq(expanded_splits, NUM_BBOX_ATTRS + 1,
                                     Min(NUM_BBOX_ATTRS + NUM_CLASSES,
                                         Len(expanded_splits))), 2),
                 pred_score |-> expanded_splits[Len(expanded_splits)]],
                LAMBDA r :
                    IF ~r.pred_bbox.ok \/ ~r.pred_class.ok \/ ~r.pred_score.ok
                    THEN NoParts
                    ELSE [ok |-> TRUE, bbox |-> r.pred_bbox, class |-> r.pred_class,
                          score |-> r.pred_score])))

\* merge_block without its special case for an attribute axis of extent 1:
\* extend() then runs over the one array nd.split returned
shrunk_split_unwrapped(split) ==
    Let(nd_split(split, split.shape[3], 2, TRUE), LAMBDA s :
        IF ~s.ok THEN <<Err>> ELSE Each(s))

\* the arrays one of merge_block's splits adds to shrunk_splits; split is a value
shrunk_split(split) ==
    Let(nd_split(split, split.shape[3], 2, TRUE), LAMBDA s :
        IF ~s.ok THEN <<Err>>
        ELSE IF split.shape[3] = 1 THEN <<s.outs[1]>>
        ELSE s.outs)

\* merge_block(splits)
merge_block(tuple) ==
    Let(tuple, LAMBDA splits :
        IF \E i \in 1..Len(splits) : ~splits[i].ok \/ Len(splits[i].shape) < 3
        THEN Err
        ELSE nd_concat(shrunk_split(splits[1]) \o shrunk_split(splits[2])
                         \o shrunk_split(splits[3]), 1))

----------------------------------------------------------------------------
(* BigRegressionOutput: the gradient rules. *)

\* the bbox rule with its operands exchanged: 2 * (label_bbox - pred_bbox)
backward_bbox_reversed(pred_bbox, label_bbox, broadcast) ==
    Map(LAMBDA x : mul_scalar(2, x), Zip(fsub, label_bbox, pred_bbox, broadcast))

\* backward_bbox: 2 * (pred_bbox - label_bbox)
backward_bbox(pred_bbox, label_bbox, broadcast) ==
    Map(LAMBDA x : mul_scalar(2, x), Zip(fsub, pred_bbox, label_bbox, broadcast))

\* the class rule followed by a replacement of every non-finite result by 0
backward_class_finite(pred_class, label_class, broadcast) ==
    Map(LAMBDA x : IF x.k = "fin" THEN x ELSE Fin(0),
        Zip(fadd,
            Zip(fmul, pred_class,
                Map(flog, Map(LAMBDA x : rminus_scalar(1, x), label_class)), broadcast),
            Zip(fmul, pred_class, Map(flog, label_class), broadcast),
            broadcast))

\* backward_class: pred_class * log(1 - label_class) + pred_class * log(label_class)
backward_class(pred_class, label_class, broadcast) ==
    Zip(fadd,
        Zip(fmul, pred_class,
            Map(flog, Map(LAMBDA x : rminus_scalar(1, x), label_class)), broadcast),
        Zip(fmul, pred_class, Map(flog, label_class), broadcast),
        broadcast)

\* backward_score: the IOU rule is commented out; the score passes through
backward_score(pred_bbox, label_bbox, pred_score) == pred_score

\* CustomOp.assign(dst, req, src): the value dst holds afterwards
assign(dst, req, src) ==
    CASE req = "null" -> dst
      [] req \in {"write", "inplace"} ->
           (IF src.ok /\ dst.ok /\ src.shape = dst.shape THEN src ELSE Err)
      [] req = "add" -> Zip(fadd, dst, src, FALSE)
      [] OTHER -> dst

\* the library build: whether elementwise operators broadcast, and whether a
\* for loop can run over one array
Builds == [broadcast : BOOLEAN, iterable : BOOLEAN]

\* The builds that can tell themselves apart on a call: broadcasting shows
\* only on operands of unequal shapes, iteration only on a split into one.
BuildsFor(a, b) ==
    {build \in Builds :
        /\ (a.shape = b.shape => ~build.broadcast)
        /\ (\A t \in {a, b} : t.shape[2] \div ANCHORS_PER_GRID # 1) => ~build.iterable}

\* backward with a confidence rule that reads the label: 2 * (pred_score - label_score)
GradientScoreResidual(prediction, truth, build) ==
    Let(split_block(prediction, build.iterable), LAMBDA p :
    IF ~p.ok THEN [steps |-> 0, gradient |-> Err] ELSE
    Let(split_block(truth, build.iterable), LAMBDA l :
    IF ~l.ok THEN [steps |-> 1, gradient |-> Err] ELSE
    Let(backward_bbox(p.bbox, l.bbox, build.broadcast), LAMBDA grad_bbox :
    IF ~grad_bbox.ok THEN [steps |-> 2, gradient |-> Err] ELSE
    Let(backward_class(p.class, l.class, build.broadcast), LAMBDA grad_class :
    IF ~grad_class.ok THEN [steps |-> 3, gradient |-> Err] ELSE
    Let(backward_bbox(p.score, l.score, build.broadcast), LAMBDA grad_score :
    IF ~grad_score.ok THEN [steps |-> 4, gradient |-> Err] ELSE
    Let(merge_block(<<grad_bbox, grad_class, grad_score>>), LAMBDA gradient :
    IF ~gradient.ok THEN [steps |-> 5, gradient |-> Err]
    ELSE [steps |-> 6, gradient |-> gradient]))))))

\* lines 105-114 of backward: the gradient computed from the two inputs, and
\* the number of the steps (two split_block calls, three gradient rules,
\* merge_block) that completed before a failure
Gradient(prediction, truth, build) ==
    Let(split_block(prediction, build.iterable), LAMBDA p :
    IF ~p.ok THEN [steps |-> 0, gradient |-> Err] ELSE
    Let(split_block(truth, build.iterable), LAMBDA l :
    IF ~l.ok THEN [steps |-> 1, gradient |-> Err] ELSE
    Let(backward_bbox(p.bbox, l.bbox, build.broadcast), LAMBDA grad_bbox :
    IF ~grad_bbox.ok THEN [steps |-> 2, gradient |-> Err] ELSE
    Let(backward_class(p.class, l.class, build.broadcast), LAMBDA grad_class :
    IF ~grad_class.ok THEN [steps |-> 3, gradient |-> Err] ELSE
    Let(backward_score(p.bbox, l.bbox, p.score), LAMBDA grad_score :
    Let(merge_block(<<grad_bbox, grad_class, grad_score>>), LAMBDA gradient :
    IF ~gradient.ok THEN [steps |-> 5, gradient |-> Err]
    ELSE [steps |-> 6, gradient |-> gradient]))))))

\* a prediction read from the output buffer instead of the input
pred_from_output == out_data[1]

\* pred, label = in_data[0], in_data[1]
pred == in_data[1]
label == in_data[2]

\* a forward that hands on the label
forward_label(req) == assign(out_data[1], req, in_data[2])

\* forward: self.assign(out_data[0], req[0], in_data[0])
forward(req) == assign(out_data[1], req, in_data[1])

\* infer_shape(in_shape): argument shapes, output shapes, auxiliary shapes
infer_shape(shapes) ==
    LET pred_shape == shapes[1]
        label_shape == shapes[2]
    IN [status |-> "ok", args |-> <<pred_shape, label_shape>>,
        outs |-> <<pred_shape>>, aux |-> <<>>]

----------------------------------------------------------------------------
(* Inputs. *)

Reqs == {"null", "write", "inplace", "add"}

Palette == << 0, 3000, 7000, 10000, -10000, 20000 >>

\* Data patterns <<offset, stride>>: element i holds the palette's value at
\* offset + stride * i.  <<0, 1>> and <<0, 5>> agree where i is a multiple of
\* 3 and differ, in both directions, elsewhere.
PredPatterns == {<<0, 1>>, <<1, 1>>}
LabelPatterns == {<<0, 1>>, <<0, 5>>}

GenPalette(shape, pat) ==
    Tensor(shape, LAMBDA i : Fin(Palette[((pat[1] + pat[2] * i) % Len(Palette)) + 1]))

\* a tensor whose elements are all different: element i holds the float i
GenIndex(shape) == Tensor(shape, LAMBDA i : Fin(i * Scale))

\* a packed tensor whose slot k (channels k*a .. (k+1)*a - 1) holds the float k
GenSlot(shape, a) ==
    Let(Inner(shape, 2), LAMBDA hw :
        Tensor(shape, LAMBDA i : Fin((((i \div hw) % shape[2]) \div a) * Scale)))

Extents == (1..MaxBatch) \X (1..MaxHeight) \X (1..MaxWidth)

\* channel count of a packed tensor
NumOutChannels(a, nb, nc) == a * (nb + nc + 1)
Packed(e, c) == <<e[1], c, e[2], e[3]>>

NoCall == [op |-> "none", req |-> "null", status |-> "ok", steps |-> 0, src |-> Err]
NoFirst == [set |-> FALSE, call |-> 0, in_data |-> <<>>, gradient |-> Err]

Configured(a, nb, nc) ==
    /\ ANCHORS_PER_GRID = a
    /\ NUM_BBOX_ATTRS = nb
    /\ NUM_CLASSES = nc

Idle ==
    /\ last = NoCall
    /\ first = NoFirst
    /\ calls = 0

NoOperator ==
    /\ in_data = <<Err, Err>>
    /\ out_data = <<Err>>
    /\ in_grad = <<Err>>

NoCodec ==
    /\ block = Err
    /\ parts = NoParts
    /\ merged = Err

NoShapes ==
    /\ in_shape = <<>>
    /\ inferred = [status |-> "none", args |-> <<>>, outs |-> <<>>, aux |-> <<>>]

----------------------------------------------------------------------------
(* The operator: forward and backward on bound buffers. *)

\* an executor bound to a prediction of extents e and a label of extents el,
\* loaded with data; the output and gradient buffers have the prediction's
\* shape and hold whatever they held before
Bound(c, e, el, pp, lp) ==
    /\ in_data = <<GenPalette(Packed(e, c), pp), GenPalette(Packed(el, c), lp)>>
    /\ out_data = <<GenPalette(Packed(e, c), <<3, 1>>)>>
    /\ in_grad = <<GenPalette(Packed(e, c), <<4, 1>>)>>

InitOperator ==
    \E a \in AnchorChoices, nb \in BboxChoices, nc \in ClassChoices :
        /\ Configured(a, nb, nc)
        /\ \E e \in Extents, pp \in PredPatterns, lp \in LabelPatterns :
              Bound(NumOutChannels(a, nb, nc), e, e, pp, lp)
        /\ Idle /\ NoCodec /\ NoShapes

\* the batches a run of calls is fed: <<prediction pattern, label pattern>>
Batches == {<<<<0, 1>>, <<0, 5>>>>, <<<<1, 1>>, <<0, 1>>>>}

\* the framework loads the next batch into the input buffers
Load ==
    /\ \E batch \in Batches :
          in_data' = <<GenPalette(pred.shape, batch[1]), GenPalette(label.shape, batch[2])>>
    /\ in_data' # in_data
    /\ UNCHANGED <<ANCHORS_PER_GRID, NUM_BBOX_ATTRS, NUM_CLASSES, out_data, in_grad,
                   last, first, calls, block, parts, merged, in_shape, inferred>>

\* forward(is_train, req, in_data, out_data, aux)
ForwardWith(reqs) ==
    \E req \in reqs :
        \E out \in {forward(req)} :
           /\ out_data' = IF out.ok THEN <<out>> ELSE out_data
           /\ last' = [op |-> "forward", req |-> req,
                       status |-> IF out.ok THEN "ok" ELSE "error",
                       steps |-> 0, src |-> in_data[1]]
           /\ calls' = calls + 1
           /\ UNCHANGED <<ANCHORS_PER_GRID, NUM_BBOX_ATTRS, NUM_CLASSES, in_data,
                          in_grad, first, block, parts, merged, in_shape, inferred>>

Forward == ForwardWith(Reqs)

\* backward(req, out_grad, in_data, out_data, in_grad, aux)
BackwardWith(reqs) ==
    \E build \in BuildsFor(pred, label) :
        \E g \in {Gradient(pred, label, build)}, req \in reqs :
            \E new \in {assign(in_grad[1], req, g.gradient)} :
               /\ in_grad' = IF g.gradient.ok /\ new.ok THEN <<new>> ELSE in_grad
               /\ last' = [op |-> "backward", req |-> req,
                           status |-> IF g.gradient.ok /\ new.ok THEN "ok" ELSE "error",
                           steps |-> g.steps, src |-> g.gradient]
               /\ first' = IF ~first.set /\ g.gradient.ok
                           THEN [set |-> TRUE, call |-> calls + 1, in_data |-> in_data,
                                 gradient |-> g.gradient]
                           ELSE first
               /\ calls' = calls + 1
               /\ UNCHANGED <<ANCHORS_PER_GRID, NUM_BBOX_ATTRS, NUM_CLASSES, in_data,
                              out_data, block, parts, merged, in_shape, inferred>>

Backward == BackwardWith(Reqs)

\* one call on a freshly bound operator
Next ==
    \/ calls < 1 /\ Forward
    \/ calls < 1 /\ Backward

Spec == InitOperator /\ [][Next]_vars

\* a prediction and a label bound with whatever extents each has
InitMismatch ==
    \E a \in AnchorChoices, nb \in BboxChoices, nc \in ClassChoices :
        /\ Configured(a, nb, nc)
        /\ \E e \in Extents, el \in Extents :
              Bound(NumOutChannels(a, nb, nc), e, el, <<0, 1>>, <<0, 5>>)
        /\ Idle /\ NoCodec /\ NoShapes

SpecMismatch == InitMismatch /\ [][Next]_vars

\* a run of calls on one operator instance, batches loaded in between
InitCalls ==
    \E a \in AnchorChoices :
        /\ Configured(a, 1, 1)
        /\ \E b \in 1..MaxBatch :
              Bound(NumOutChannels(a, 1, 1), <<b, 1, 1>>, <<b, 1, 1>>, <<0, 1>>, <<0, 5>>)
        /\ Idle /\ NoCodec /\ NoShapes

NextCalls ==
    \/ Load
    \/ calls < MaxCalls /\ ForwardWith({"write", "add"})
    \/ calls < MaxCalls /\ BackwardWith({"write", "add"})

SpecCalls == InitCalls /\ [][NextCalls]_vars

----------------------------------------------------------------------------
(* The codec on its own: split_block, then merge_block on what it returned. *)

InitBlock(channels(_, _, _), kinds) ==
    \E a \in AnchorChoices, nb \in BboxChoices, nc \in ClassChoices :
        /\ Configured(a, nb, nc)
        /\ \E e \in Extents, c \in channels(a, nb, nc), kind \in kinds :
              block = IF kind = "slot" THEN GenSlot(Packed(e, c), a)
                      ELSE GenIndex(Packed(e, c))
        /\ parts = NoParts /\ merged = Err
        /\ NoOperator /\ Idle /\ NoShapes

Split ==
    /\ last.op = "none"
    /\ \E build \in BuildsFor(block, block) :
          \E r \in {split_block(block, build.iterable)} :
             /\ parts' = r
             /\ last' = [NoCall EXCEPT !.op = "split_block",
                                       !.status = IF r.ok THEN "ok" ELSE "error"]
    /\ calls' = calls + 1
    /\ UNCHANGED <<ANCHORS_PER_GRID, NUM_BBOX_ATTRS, NUM_CLASSES, in_data, out_data,
                   in_grad, first, block, merged, in_shape, inferred>>

Merge ==
    /\ last.op = "split_block"
    /\ parts.ok
    /\ \E r \in {merge_block(<<parts.bbox, parts.class, parts.score>>)} :
          /\ merged' = r
          /\ last' = [NoCall EXCEPT !.op = "merge_block",
                                    !.status = IF r.ok THEN "ok" ELSE "error"]
    /\ calls' = calls + 1
    /\ UNCHANGED <<ANCHORS_PER_GRID, NUM_BBOX_ATTRS, NUM_CLASSES, in_data, out_data,
                   in_grad, first, block, parts, in_shape, inferred>>

NextCodec == Split \/ Merge

\* packed tensors of the configured channel count
InitCodec == InitBlock(LAMBDA a, nb, nc : {NumOutChannels(a, nb, nc)}, {"index", "slot"})
SpecCodec == InitCodec /\ [][NextCodec]_vars

\* tensors of any channel count up to one slot more than configured
InitCodecAny == InitBlock(LAMBDA a, nb, nc : 1..(NumOutChannels(a, nb, nc) + a), {"index"})
SpecCodecAny == InitCodecAny /\ [][NextCodec]_vars

----------------------------------------------------------------------------
(* Shape inference. *)

InitShape ==
    \E a \in AnchorChoices, nb \in BboxChoices, nc \in ClassChoices :
        /\ Configured(a, nb, nc)
        /\ \E e \in Extents, el \in Extents, d \in {0, a} :
              in_shape = <<Packed(e, NumOutChannels(a, nb, nc)),
                           Packed(el, NumOutChannels(a, nb, nc) + d)>>
        /\ inferred = [status |-> "none", args |-> <<>>, outs |-> <<>>, aux |-> <<>>]
        /\ NoOperator /\ Idle /\ NoCodec

InferShape ==
    /\ last.op = "none"
    /\ inferred' = infer_shape(in_shape)
    /\ last' = [NoCall EXCEPT !.op = "infer_shape"]
    /\ calls' = calls + 1
    /\ UNCHANGED <<ANCHORS_PER_GRID, NUM_BBOX_ATTRS, NUM_CLASSES, in_data, out_data,
                   in_grad, first, block, parts, merged, in_shape>>

SpecShape == InitShape /\ [][InferShape]_vars

----------------------------------------------------------------------------
(* Vocabulary of the properties. *)

\* the channel of linear index i in a packed tensor of the given shape
Channel(i, shape) == (i \div (shape[3] * shape[4])) % shape[2]
Indices(t) == 0..(Prod(t.shape) - 1)

BboxChannels == 0..(NUM_BBOX_ATTRS * ANCHORS_PER_GRID - 1)
ClassChannels ==
    (NUM_BBOX_ATTRS * ANCHORS_PER_GRID)..((NUM_BBOX_ATTRS + NUM_CLASSES) * ANCHORS_PER_GRID - 1)
ScoreChannels ==
    ((NUM_BBOX_ATTRS + NUM_CLASSES) * ANCHORS_PER_GRID)
        ..((NUM_BBOX_ATTRS + NUM_CLASSES + 1) * ANCHORS_PER_GRID - 1)

ValidChannels(t) ==
    /\ t.shape[2] % ANCHORS_PER_GRID = 0
    /\ t.shape[2] \div ANCHORS_PER_GRID = NUM_BBOX_ATTRS + NUM_CLASSES + 1

SameElements(a, b) ==
    /\ a.ok /\ b.ok
    /\ a.shape = b.shape
    /\ \A i \in Indices(a) : At(a, i) = At(b, i)

\* the sub-tensor shape (batch, ANCHORS_PER_GRID, attrs, height, width) for a block
SubShape(blk, attrs) ==
    <<blk.shape[1], ANCHORS_PER_GRID, attrs, blk.shape[3], blk.shape[4]>>

\* every element of t holds the float base + (its index along the attribute axis)
HoldsAttribute(t, base) ==
    \A i \in Indices(t) : At(t, i) = Fin((base + Unravel(i, t.shape)[3]) * Scale)

\* label with every element of its confidence slot replaced by fill
WithConfidence(t, fill) ==
    Tensor(t.shape, LAMBDA i : IF Channel(i, t.shape) \in ScoreChannels THEN fill ELSE At(t, i))

ConfFills == {Fin(-7000), NaN}

----------------------------------------------------------------------------
(* The codec: split_block and merge_block. *)

\* C1: for a packed tensor T of a valid channel count, under every
\* configuration with ANCHORS_PER_GRID in {1, 3, 9}, NUM_BBOX_ATTRS in {1, 4}
\* and NUM_CLASSES in {1, 5}, split_block(T) succeeds and
\* merge_block(split_block(T)) has T's shape and is elementwise equal to T.
C1_RoundTrip ==
    ValidChannels(block) =>
        /\ last.op \in {"split_block", "merge_block"} =>
              /\ last.status = "ok"
              /\ parts.ok
        /\ last.op = "merge_block" => SameElements(merged, block)

\* a round trip through attribute axes of extent 1 (bbox, class and score), on
\* a tensor of more than one batch entry whose elements are all different
C1_Witness ==
    /\ last.op = "merge_block"
    /\ ValidChannels(block)
    /\ ANCHORS_PER_GRID = 9 /\ NUM_BBOX_ATTRS = 1 /\ NUM_CLASSES = 1
    /\ block.shape[1] > 1
    /\ block = GenIndex(block.shape)
    /\ parts.bbox.shape[3] = 1
    /\ SameElements(merged, block)

\* C9: decoding a packed tensor in which every element of slot k holds the
\* value k gives a bbox sub-tensor of shape (b, A, NUM_BBOX_ATTRS, h, w) whose
\* attribute j holds j everywhere, a class sub-tensor of shape
\* (b, A, NUM_CLASSES, h, w) whose attribute j holds NUM_BBOX_ATTRS + j, and a
\* confidence sub-tensor of shape (b, A, 1, h, w) holding
\* NUM_BBOX_ATTRS + NUM_CLASSES.
C9_SlotOrder ==
    (/\ last.op \in {"split_block", "merge_block"}
     /\ ValidChannels(block)
     /\ block = GenSlot(block.shape, ANCHORS_PER_GRID)) =>
        /\ parts.ok
        /\ parts.bbox.shape = SubShape(block, NUM_BBOX_ATTRS)
        /\ HoldsAttribute(parts.bbox, 0)
        /\ parts.class.shape = SubShape(block, NUM_CLASSES)
        /\ HoldsAttribute(parts.class, NUM_BBOX_ATTRS)
        /\ parts.score.shape = SubShape(block, 1)
        /\ HoldsAttribute(parts.score, NUM_BBOX_ATTRS + NUM_CLASSES)

\* a slot-constant tensor of ten slots and three anchors has been decoded
C9_Witness ==
    /\ last.op = "split_block"
    /\ parts.ok
    /\ ANCHORS_PER_GRID = 3 /\ NUM_BBOX_ATTRS = 4 /\ NUM_CLASSES = 5
    /\ block.shape[1] > 1 /\ block.shape[3] > 1
    /\ block = GenSlot(block.shape, ANCHORS_PER_GRID)
    /\ HoldsAttribute(parts.class, NUM_BBOX_ATTRS)

\* C2 (as the specification states it): split_block fails, returning no
\* sub-tensors, on a tensor whose channel count is not divisible by
\* ANCHORS_PER_GRID or whose quotient is not NUM_BBOX_ATTRS + NUM_CLASSES + 1.
C2_RejectsChannels ==
    (last.op = "split_block" /\ ~ValidChannels(block)) =>
        /\ last.status = "error"
        /\ ~parts.ok

----------------------------------------------------------------------------
(* Shape inference. *)

\* C3 (as the specification states it): infer_shape fails when the prediction
\* and label shapes disagree, and otherwise returns ([pred, label], [pred], []).
C3_ShapesAgree ==
    last.op = "infer_shape" =>
        IF in_shape[1] # in_shape[2]
        THEN inferred.status = "error"
        ELSE /\ inferred.status = "ok"
             /\ inferred.args = <<in_shape[1], in_shape[2]>>
             /\ inferred.outs = <<in_shape[1]>>
             /\ inferred.aux = <<>>

----------------------------------------------------------------------------
(* The operator: forward. *)

\* C7 (as the specification states it): after forward, out_data[0] is
\* elementwise equal to the prediction tensor.
C7_OutputIsPrediction ==
    last.op = "forward" => SameElements(out_data[1], in_data[1])

\* C7: forward leaves both inputs unchanged, and what out_data[0] holds
\* afterwards is decided by the write request: the prediction, element for
\* element, under "write" and "inplace"; what it held before under "null";
\* what it held before plus the prediction under "add".
C7_ForwardAssigns ==
    [][(last'.op = "forward" /\ calls' = calls + 1) =>
          /\ in_data' = in_data
          /\ last'.status = "ok"
          /\ last'.req \in {"write", "inplace"} => SameElements(out_data'[1], in_data[1])
          /\ last'.req = "null" => out_data' = out_data
          /\ last'.req = "add" =>
                /\ out_data'[1].shape = in_data[1].shape
                /\ \A i \in Indices(in_data[1]) :
                      At(out_data'[1], i) = fadd(At(out_data[1], i), At(in_data[1], i))]_vars

\* a forward under "write" has copied a prediction that differs from the label
\* and from what the output buffer held, over more than one batch entry
C7_Witness ==
    /\ last.op = "forward"
    /\ last.req = "write"
    /\ SameElements(out_data[1], in_data[1])
    /\ in_data[1].shape[1] > 1
    /\ in_data[1] # in_data[2]
    /\ in_data[1] # GenPalette(in_data[1].shape, <<3, 1>>)

----------------------------------------------------------------------------
(* The operator: backward on inputs of one shape. *)

\* C5: the gradient backward writes has the prediction's shape, and on every
\* element of channels 0 .. NUM_BBOX_ATTRS * ANCHORS_PER_GRID - 1 it holds
\* 2 * (prediction - label): zero where the two agree, and of the sign of
\* prediction - label elsewhere.
C5_BboxGradient ==
    (last.op = "backward" /\ pred.shape = label.shape /\ ValidChannels(pred)) =>
        /\ last.status = "ok"
        /\ last.src.ok
        /\ last.src.shape = pred.shape
        /\ last.req \in {"write", "inplace"} => in_grad[1] = last.src
        /\ \A i \in Indices(pred) :
              Channel(i, pred.shape) \in BboxChannels =>
                 /\ At(last.src, i) = Fin(2 * (At(pred, i).v - At(label, i).v))
                 /\ At(pred, i) = At(label, i) => At(last.src, i) = Fin(0)
                 /\ Sign(At(last.src, i)) = Sign(fsub(At(pred, i), At(label, i)))

\* a written gradient whose bbox channels hold a positive, a negative and a
\* zero difference
C5_Witness ==
    /\ last.op = "backward"
    /\ last.req = "write"
    /\ last.src.ok
    /\ in_grad[1] = last.src
    /\ NUM_BBOX_ATTRS = 4 /\ ANCHORS_PER_GRID = 3
    /\ \E i, j, k \in {n \in Indices(pred) : Channel(n, pred.shape) \in BboxChannels} :
          /\ At(pred, i).v > At(label, i).v /\ At(in_grad[1], i).v > 0
          /\ At(pred, j).v < At(label, j).v /\ At(in_grad[1], j).v < 0
          /\ At(pred, k) = At(label, k) /\ At(in_grad[1], k) = Fin(0)

\* C8: on every element of the class channels the gradient holds
\* p * log(1 - l) + p * log(l) for the prediction p and the label l there,
\* whatever that is: nothing is clamped and no infinity or NaN is replaced.
C8_ClassGradient ==
    (last.op = "backward" /\ pred.shape = label.shape /\ ValidChannels(pred)) =>
        /\ last.src.ok
        /\ \A i \in Indices(pred) :
              Channel(i, pred.shape) \in ClassChannels =>
                 At(last.src, i) =
                    fadd(fmul(At(pred, i), flog(rminus_scalar(1, At(label, i)))),
                         fmul(At(pred, i), flog(At(label, i))))

\* a gradient whose class channels hold a NaN (label outside [0, 1]), an
\* infinity (label 0 or 1) and a finite nonzero value (label inside (0, 1))
C8_Witness ==
    /\ last.op = "backward"
    /\ last.src.ok
    /\ \E i, j, k \in {n \in Indices(pred) : Channel(n, pred.shape) \in ClassChannels} :
          /\ At(last.src, i) = NaN
          /\ At(last.src, j).k \in {"pinf", "ninf"} /\ At(label, j) \in {Fin(0), Fin(Scale)}
          /\ At(last.src, k).k = "fin" /\ At(last.src, k).v # 0
                /\ At(label, k).v > 0 /\ At(label, k).v < Scale

----------------------------------------------------------------------------
(* The operator: backward on inputs of different shapes. *)

\* C4 (as the specification states it): a backward whose prediction and label
\* differ in batch size, height or width fails, before any tensor computation
\* has run, and leaves in_grad[0] as it was.
C4_RejectsMismatch ==
    [][(last'.op = "backward" /\ calls' = calls + 1 /\ pred.shape # label.shape) =>
          /\ last'.status = "error"
          /\ last'.steps = 0
          /\ in_grad' = in_grad]_vars

----------------------------------------------------------------------------
(* The operator over a run of calls. *)

====
